---------------------------- MODULE Spec2Model ----------------------------
(***************************************************************************)
(* A model of the number field sieve of finn-rudolph/nfs: the number       *)
(* theory primitives (prime_test.rs, nt.rs, mod_sqrt.rs), the GF(2) linear  *)
(* algebra (linalg.rs) and the orchestrator factorize (nfs.rs, sqrt.rs).    *)
(*                                                                         *)
(* Machine words wider than TLC's integers are kept exact: a u64 constant  *)
(* is a sequence of base-1000 limbs, a 64-bit row of a block matrix is the *)
(* set of its one-bit positions.                                           *)
(***************************************************************************)
EXTENDS Integers, Sequences, FiniteSets, TLC

VARIABLES
    fn,     \* the function under call: its name
    args,   \* the arguments of the call
    rnd,    \* the values the call drew from its random generator, in order
    ret,    \* the outcome of the call: Pending, Ok(value) or Panic
    \* factorize (nfs.rs): its position and its locals
    pc,                     \* "idle" outside factorize; else the statement it is at
    env,                    \* params, f, m and the three factor bases, once set up
    sieve_b,                \* b, the line being sieved (`for b in 1..`)
    sieve_i,                \* i, the sieve index being scanned (`for i in 0..sieve_array_size`)
    rational_sieve_array,
    algebraic_sieve_array,
    relations,
    matrix_builder,
    mat,                    \* the block find_dependencies returned
    num_dependencies,
    dep,                    \* the dependency being processed (`for i in 0..num_dependencies`)
    factors,
    last                    \* what the latest turn of the dependency loop computed

callvars == <<fn, args, rnd, ret>>

sievevars == <<sieve_b, sieve_i, rational_sieve_array, algebraic_sieve_array, relations, matrix_builder>>

depvars == <<mat, num_dependencies, dep, factors, last>>

vars == <<callvars, pc, env, sievevars, depvars>>

Pending == [status |-> "pending"]
Panic == [status |-> "panic"]      \* an assert!, an overflow or an index check aborted the call
Ok(v) == [status |-> "ok", value |-> v]

\* the locals of factorize while no call of it is under way
FactorizeIdle ==
    /\ pc = "idle"
    /\ env = <<>>
    /\ sieve_b = 0
    /\ sieve_i = 0
    /\ rational_sieve_array = <<>>
    /\ algebraic_sieve_array = <<>>
    /\ relations = <<>>
    /\ matrix_builder = <<>>
    /\ mat = <<>>
    /\ num_dependencies = 0
    /\ dep = 0
    /\ factors = <<>>
    /\ last = <<>>

FactorizeUntouched == UNCHANGED <<pc, env, sievevars, depvars>>

(***************************************************************************)
(* Bounds of the model.                                                    *)
(***************************************************************************)
MaxN == 1200        \* miller_rabin is called on 2..MaxN
MaxP == 41          \* mod_sqrt is called with primes p <= MaxP
MaxCscRows == 2     \* CSC matrices have at most MaxCscRows rows ...
MaxCscCols == 2     \* ... and at most MaxCscCols columns
MaxSeed == 2        \* random blocks are drawn for the seeds 0..MaxSeed

(***************************************************************************)
(* Mathematical vocabulary the properties are stated in.                   *)
(***************************************************************************)
IsPrime(n) == n >= 2 /\ \A k \in 2..(n - 1) : (k * k > n) \/ (n % k # 0)

IsComposite(n) == n >= 4 /\ \E k \in 2..(n - 1) : n % k = 0

IsQuadraticResidue(a, p) == \E y \in 1..(p - 1) : (y * y) % p = a % p

(***************************************************************************)
(* prime_test.rs / nt.rs: modular exponentiation.                          *)
(***************************************************************************)
RECURSIVE ModExpLoop(_, _, _, _)
ModExpLoop(a, b, n, c) ==
    IF b = 0 THEN c
    ELSE ModExpLoop((a * a) % n, b \div 2, n,
                    IF b % 2 = 1 THEN (c * a) % n ELSE c)

mod_exp(a, b, n) == ModExpLoop(a, b, n, 1)

legendre(a, p) == mod_exp(a, (p - 1) \div 2, p)

mod_inverse(a, p) == mod_exp(a, p - 2, p)

(***************************************************************************)
(* prime_test.rs: miller_rabin.  The three u64 bases, most significant     *)
(* base-1000 limb first: 15, 7363882082, 992620450144556.                  *)
(***************************************************************************)
MILLER_RABIN_BASES ==
    << <<15>>, <<7, 363, 882, 82>>, <<992, 620, 450, 144, 556>> >>

RECURSIVE LimbsMod(_, _, _)
\* (the u64 whose limbs are `limbs`, appended to the value acc) % n
LimbsMod(limbs, n, acc) ==
    IF limbs = <<>> THEN acc % n
    ELSE LimbsMod(Tail(limbs), n, ((acc % n) * 1000 + Head(limbs)) % n)

RECURSIVE trailing_zeros(_)
\* (n - 1).trailing_zeros() for the u32 x = n - 1 (32 for x = 0)
trailing_zeros(x) ==
    IF x = 0 THEN 32
    ELSE IF x % 2 = 1 THEN 0 ELSE 1 + trailing_zeros(x \div 2)

RECURSIVE Pow2(_)
Pow2(k) == IF k = 0 THEN 1 ELSE 2 * Pow2(k - 1)

RECURSIVE SquaringLoop(_, _, _)
\* the inner loop `for _ in 0..trailing_zeros`: -1 on `return false`,
\* otherwise the final x (which is >= 0)
SquaringLoop(x, k, n) ==
    IF k = 0 THEN x
    ELSE LET y == (x * x) % n
         IN  IF y = 1 /\ x # 1 /\ x # n - 1 THEN -1
             ELSE SquaringLoop(y, k - 1, n)

\* the turn without `if a == 0 { continue; }` (as is_prime of nt.rs has it)
BasePassesNoSkip(limbs, n, u, tz) ==
    SquaringLoop(mod_exp(LimbsMod(limbs, n, 0), u, n), tz, n) = 1

\* one turn of `for mut a in MILLER_RABIN_BASES`: TRUE iff it does not return false
BasePasses(limbs, n, u, tz) ==
    LET a == LimbsMod(limbs, n, 0)
    IN  IF a = 0 THEN TRUE
        ELSE LET x == SquaringLoop(mod_exp(a, u, n), tz, n)
             IN  x = 1

miller_rabin(n) ==
    IF n = 2 THEN TRUE
    ELSE LET tz == trailing_zeros(n - 1)
             u  == (n - 1) \div Pow2(tz)
         IN  \A k \in 1..Len(MILLER_RABIN_BASES) :
                BasePasses(MILLER_RABIN_BASES[k], n, u, tz)

(***************************************************************************)
(* Specification SpecMR: miller_rabin called on every n of 2..MaxN.        *)
(***************************************************************************)
InitMR ==
    /\ FactorizeIdle
    /\ fn = "miller_rabin"
    /\ args \in [n : 2..MaxN]
    /\ rnd = <<>>
    /\ ret = Pending

CallMillerRabin ==
    /\ fn = "miller_rabin"
    /\ ret = Pending
    /\ ret' = Ok(miller_rabin(args.n))
    /\ UNCHANGED <<fn, args, rnd>>
    /\ FactorizeUntouched

NextMR == CallMillerRabin

SpecMR == InitMR /\ [][NextMR]_vars

Returned == ret.status = "ok"

\* C1: miller_rabin decides primality exactly: it returns true for every prime
\* and false for every composite of its domain (here 2..MaxN).
MillerRabinExact ==
    (fn = "miller_rabin" /\ Returned) =>
        /\ IsPrime(args.n) => ret.value = TRUE
        /\ IsComposite(args.n) => ret.value = FALSE

\* a prime that divides the base 15, so that the base reduces to 0 and is skipped
MillerRabinSkipsZeroBase ==
    /\ fn = "miller_rabin" /\ Returned
    /\ IsPrime(args.n)
    /\ LimbsMod(MILLER_RABIN_BASES[1], args.n, 0) = 0
    /\ ret.value = TRUE

(***************************************************************************)
(* nt.rs and mod_sqrt.rs: mod_sqrt (Tonelli-Shanks).  The two files differ *)
(* in the range the non-residue b is drawn from: 2..p in nt.rs, 2..p - 1   *)
(* in mod_sqrt.rs (both half-open).                                        *)
(***************************************************************************)
RECURSIVE TonelliLoopStaleInverse(_, _, _, _, _, _)
\* the loop without `cinv = (cinv * cinv) % p`
TonelliLoopStaleInverse(a, m, c, cinv, correction, p) ==
    LET hit   == mod_exp(a, m, p) # 1
        a1    == IF hit THEN (a * ((c * c) % p)) % p ELSE a
        corr1 == IF hit THEN (correction * cinv) % p ELSE correction
    IN  IF m % 2 = 1
        THEN (mod_exp(a1, (m + 1) \div 2, p) * corr1) % p
        ELSE TonelliLoopStaleInverse(a1, m \div 2, (c * c) % p, cinv, corr1, p)

RECURSIVE TonelliLoop(_, _, _, _, _, _)
\* the `loop` of mod_sqrt, entered with m = (p - 1) >> 2, c = b,
\* cinv = mod_inverse(b, p), correction = 1; its value is the returned root
TonelliLoop(a, m, c, cinv, correction, p) ==
    LET hit   == mod_exp(a, m, p) # 1
        a1    == IF hit THEN (a * ((c * c) % p)) % p ELSE a
        corr1 == IF hit THEN (correction * cinv) % p ELSE correction
    IN  IF m % 2 = 1
        THEN (mod_exp(a1, (m + 1) \div 2, p) * corr1) % p
        ELSE TonelliLoop(a1, m \div 2, (c * c) % p, (cinv * cinv) % p, corr1, p)

\* the values `while legendre(b, p) == 1 { b = rng.gen_range(lo..hi) }` can end with
NonResidueDraws(lo, hi, p) == {b \in lo..(hi - 1) : legendre(b, p) # 1}

\* mod_sqrt up to the random search: the outcome when no b is needed, else "search"
ModSqrtEntry(a, p) ==
    IF p = 2 THEN (IF a = 1 THEN Ok(1) ELSE Panic)
    ELSE IF legendre(a, p) # 1 THEN Panic
    ELSE IF p % 4 = 3 THEN Ok(mod_exp(a, (p + 1) \div 4, p))
    ELSE [status |-> "search"]

\* mod_sqrt from the drawn non-residue b on
ModSqrtMain(a, p, b) ==
    Ok(TonelliLoop(a, (p - 1) \div 4, b, mod_inverse(b, p), 1, p))

(***************************************************************************)
(* Specification SpecSqrt: mod_sqrt of either file called with a prime     *)
(* p <= MaxP and any a < p.                                                *)
(***************************************************************************)
ModSqrtFns == {"nt::mod_sqrt", "mod_sqrt::mod_sqrt"}

InitSqrt ==
    /\ FactorizeIdle
    /\ fn \in ModSqrtFns
    /\ args \in {x \in [a : 0..MaxP, p : 2..MaxP] : IsPrime(x.p) /\ x.a < x.p}
    /\ rnd = <<>>
    /\ ret = Pending

\* a call that returns (or aborts) before the random search
ModSqrtDirect ==
    /\ fn \in ModSqrtFns
    /\ ret = Pending
    /\ ModSqrtEntry(args.a, args.p).status # "search"
    /\ ret' = ModSqrtEntry(args.a, args.p)
    /\ UNCHANGED <<fn, args, rnd>>
    /\ FactorizeUntouched

\* nt.rs: b = rng.gen_range(2..p)
ModSqrtNt ==
    /\ fn = "nt::mod_sqrt"
    /\ ret = Pending
    /\ ModSqrtEntry(args.a, args.p).status = "search"
    /\ \E b \in NonResidueDraws(2, args.p, args.p) :
          /\ rnd' = <<b>>
          /\ ret' = ModSqrtMain(args.a, args.p, b)
    /\ UNCHANGED <<fn, args>>
    /\ FactorizeUntouched

\* mod_sqrt.rs: b = rng.gen_range(2..p - 1)
ModSqrtModSqrt ==
    /\ fn = "mod_sqrt::mod_sqrt"
    /\ ret = Pending
    /\ ModSqrtEntry(args.a, args.p).status = "search"
    /\ \E b \in NonResidueDraws(2, args.p - 1, args.p) :
          /\ rnd' = <<b>>
          /\ ret' = ModSqrtMain(args.a, args.p, b)
    /\ UNCHANGED <<fn, args>>
    /\ FactorizeUntouched

NextSqrt == ModSqrtDirect \/ ModSqrtNt \/ ModSqrtModSqrt

SpecSqrt == InitSqrt /\ [][NextSqrt]_vars

\* C2: for an odd prime p and a in [1, p) with legendre(a, p) = 1, mod_sqrt
\* returns x with x * x mod p = a, whichever non-residue b the search drew.
ModSqrtIsRoot ==
    (/\ fn \in ModSqrtFns /\ ret # Pending
     /\ args.p # 2 /\ args.a >= 1 /\ legendre(args.a, args.p) = 1) =>
        /\ Returned
        /\ ret.value \in 0..(args.p - 1)
        /\ (ret.value * ret.value) % args.p = args.a

\* the main loop ran at least twice (8 divides p - 1) after a random draw
ModSqrtMainLoopRan ==
    /\ fn = "mod_sqrt::mod_sqrt" /\ Returned
    /\ args.p % 8 = 1 /\ Len(rnd) = 1
    /\ args.a > 1
    /\ (ret.value * ret.value) % args.p = args.a


(***************************************************************************)
(* linalg.rs.  A Vec is a sequence, read at the source's 0-based index by  *)
(* At; a u64 row of a BlockMatrix is the set of the positions of its ones. *)
(***************************************************************************)
N == 64

At(v, i) == v[i + 1]

InBounds(v, i) == 0 <= i /\ i < Len(v)

Word == SUBSET (0..(N - 1))

Xor(x, y) == (x \ y) \cup (y \ x)

\* block_matrix![0; n]
ZeroBlock(n) == [i \in 1..n |-> {}]

\* BlockMatrix::new_random(n): the fill the generator seeded with `seed` produces
RandomWord(seed, i) ==
    {j \in 0..(N - 1) :
        (i * i + 3 * j * j + (seed + 1) * i * j + seed + ((i + j) \div 3)) % 7 \in {0, 1, 3}}

new_random(seed, n) == [i \in 1..n |-> RandomWord(seed, i - 1)]

(***************************************************************************)
(* impl Mul<&BlockMatrix> for &CscMatrixTranspose                          *)
(***************************************************************************)
RECURSIVE CscTransposeMulLoopRestart(_, _, _, _, _)
\* the loop with `let mut j = 0` moved inside `for i in 0..n`
CscTransposeMulLoopRestart(M, b, i, j, res) ==
    IF i = Len(M.end) THEN [status |-> "ok", value |-> res]
    ELSE IF j < M.end[i + 1]
         THEN IF ~(j < Len(M.ones)) \/ ~(M.ones[j + 1] < Len(b)) THEN [status |-> "panic"]
              ELSE CscTransposeMulLoopRestart(M, b, i, j + 1,
                       [res EXCEPT ![i + 1] =
                           (@ \ b[M.ones[j + 1] + 1]) \cup (b[M.ones[j + 1] + 1] \ @)])
         ELSE CscTransposeMulLoopRestart(M, b, i + 1, 0, res)

RECURSIVE CscTransposeMulLoop(_, _, _, _, _)
\* `for i in 0..n { while j < end[i] { res[i] ^= b[ones[j]]; j += 1 } }`
\* from the position (i, j) on; an index out of bounds aborts
CscTransposeMulLoop(M, b, i, j, res) ==
    IF i = Len(M.end) THEN Ok(res)
    ELSE IF j < At(M.end, i)
         THEN IF ~InBounds(M.ones, j) \/ ~InBounds(b, At(M.ones, j)) THEN Panic
              ELSE CscTransposeMulLoop(M, b, i, j + 1,
                       [res EXCEPT ![i + 1] = Xor(@, At(b, At(M.ones, j)))])
         ELSE CscTransposeMulLoop(M, b, i + 1, j, res)

CscTransposeMul(M, b) ==
    IF M.num_rows # Len(b) THEN Panic
    ELSE CscTransposeMulLoop(M, b, 0, 0, ZeroBlock(Len(M.end)))

(***************************************************************************)
(* impl Mul<&BlockMatrixTranspose> for &BlockMatrix                        *)
(***************************************************************************)
\* ((x & y).count_ones() & 1)
AndParity(x, y) == Cardinality(x \cap y) % 2

\* the product with `for j in 0..N - 1`
MulTransposeShortLoop(a, b) ==
    IF ~(Len(a) >= N) THEN Panic
    ELSE IF N # Len(b) THEN Panic
    ELSE Ok([i \in 1..Len(a) |->
                {j \in 0..(N - 2) : AndParity(a[i], At(b, j)) = 1}])

MulTranspose(a, b) ==
    IF ~(Len(a) >= N) THEN Panic
    ELSE IF N # Len(b) THEN Panic
    ELSE Ok([i \in 1..Len(a) |->
                {j \in 0..(N - 1) : AndParity(a[i], At(b, j)) = 1}])

(***************************************************************************)
(* BlockMatrix::explicit_transpose and BlockMatrix::is_symmetric           *)
(***************************************************************************)
\* the transpose with the bit placed at i / N of word i & (N - 1)'s place: `<< (i / N)`
explicit_transpose_div(self) ==
    LET n_words == (Len(self) + N - 1) \div N
    IN  [j1 \in 1..N |->
            [w1 \in 1..n_words |->
                {k \in 0..(N - 1) :
                    \E i \in 0..(Len(self) - 1) :
                        /\ i \div N = w1 - 1
                        /\ i \div N = k
                        /\ (j1 - 1) \in At(self, i)}]]

\* res[j][i / N] |= ((self[i] >> j) & 1) << (i & (N - 1)), for all i and j
explicit_transpose(self) ==
    LET n_words == (Len(self) + N - 1) \div N
    IN  [j1 \in 1..N |->
            [w1 \in 1..n_words |->
                {k \in 0..(N - 1) :
                    \E i \in 0..(Len(self) - 1) :
                        /\ i \div N = w1 - 1
                        /\ i % N = k
                        /\ (j1 - 1) \in At(self, i)}]]

\* is_symmetric comparing (self[i] >> j) & 1 with (self[j] >> j) & 1
is_symmetric_typo(self) ==
    IF Len(self) # N THEN Panic
    ELSE Ok(\A i \in 0..(N - 1) : \A j \in 0..(N - 1) :
                (j \in At(self, i)) = (j \in At(self, j)))

is_symmetric(self) ==
    IF Len(self) # N THEN Panic
    ELSE Ok(\A i \in 0..(N - 1) : \A j \in 0..(N - 1) :
                (j \in At(self, i)) = (i \in At(self, j)))

\* is_symmetric(&(a * &a.transpose()))
SymmetricOfSquare(a) ==
    LET prod == MulTranspose(a, a)
    IN  IF prod.status # "ok" THEN Panic ELSE is_symmetric(prod.value)

(***************************************************************************)
(* Specification SpecLinalg: the products and transposes called on CSC     *)
(* matrices of at most MaxCscRows x MaxCscCols and on random blocks.       *)
(***************************************************************************)
Range(q) == {q[k] : k \in DOMAIN q}

\* CscMatrixBuilder::new, set_num_rows, add_col, build
BuilderNew == [num_rows |-> 0, end |-> <<>>, ones |-> <<>>]

set_num_rows(builder, num_rows) == [builder EXCEPT !.num_rows = num_rows]

\* add_col that records no column for an empty ones_pos
add_col_skip_empty(builder, ones_pos) ==
    IF ones_pos = <<>> THEN builder
    ELSE LET ones == builder.ones \o ones_pos
         IN  [builder EXCEPT !.ones = ones, !.end = Append(@, Len(ones))]

\* add_col that pushes the length of the column, not of ones
add_col_own_length(builder, ones_pos) ==
    [builder EXCEPT !.ones = @ \o ones_pos, !.end = Append(@, Len(ones_pos))]

add_col(builder, ones_pos) ==
    LET ones == builder.ones \o ones_pos
    IN  [builder EXCEPT !.ones = ones, !.end = Append(@, Len(ones))]

build(builder) ==
    IF (Len(builder.end) # 0) # (builder.num_rows # 0) THEN Panic
    ELSE Ok([num_rows |-> builder.num_rows, end |-> builder.end, ones |-> builder.ones])

RECURSIVE AddCols(_, _)
AddCols(builder, cols) ==
    IF cols = <<>> THEN builder
    ELSE AddCols(add_col(builder, Head(cols)), Tail(cols))

RECURSIVE ColumnsOfWeight(_, _)
\* the columns with k ones: the sequences of k pairwise distinct rows < R
ColumnsOfWeight(R, k) ==
    IF k = 0 THEN {<<>>}
    ELSE {Append(y[1], y[2]) :
            y \in {z \in ColumnsOfWeight(R, k - 1) \X (0..(R - 1)) :
                      z[2] \notin Range(z[1])}}

Columns(R) == UNION {ColumnsOfWeight(R, k) : k \in 0..R}

RECURSIVE ColumnLists(_, _)
ColumnLists(R, c) ==
    IF c = 0 THEN {<<>>}
    ELSE {<<y[1]>> \o y[2] : y \in Columns(R) \X ColumnLists(R, c - 1)}

\* the matrices the builder produces: R >= 1 rows, 1..MaxCscCols columns
CscMatrices ==
    UNION {{build(AddCols(set_num_rows(BuilderNew, R), cols)).value :
                cols \in UNION {ColumnLists(R, c) : c \in 1..MaxCscCols}} :
           R \in 1..MaxCscRows}

\* the row counts blocks are drawn with: around and at multiples of the width N
RowCounts == {0, 1, N - 1, N, N + 1, 2 * N}

Seeds == 0..MaxSeed

InitLinalg ==
    /\ FactorizeIdle
    /\ rnd = <<>>
    /\ ret = Pending
    /\ \/ /\ fn = "csc_transpose_mul"
          /\ args \in [m : CscMatrices, seed : Seeds]
       \/ /\ fn = "mul_transpose"
          /\ args \in [n : RowCounts, seed : Seeds, bseed : Seeds]
       \/ /\ fn = "is_symmetric"
          /\ args \in [n : RowCounts, seed : Seeds]
       \/ /\ fn = "explicit_transpose"
          /\ args \in [n : RowCounts, seed : Seeds]

\* the blocks a call of SpecLinalg works on
BlockA == new_random(args.seed, args.n)
BlockB == new_random(args.bseed, N)
CscB == new_random(args.seed, args.m.num_rows)

\* M.transpose() * B for a random block B with M.num_rows rows
CallCscTransposeMul ==
    /\ fn = "csc_transpose_mul"
    /\ ret = Pending
    /\ \E b \in {CscB} : ret' = CscTransposeMul(args.m, b)
    /\ UNCHANGED <<fn, args, rnd>>
    /\ FactorizeUntouched

\* A * B.transpose() for random blocks A (n rows) and B (N rows)
CallMulTranspose ==
    /\ fn = "mul_transpose"
    /\ ret = Pending
    /\ \E A \in {BlockA}, B \in {BlockB} : ret' = MulTranspose(A, B)
    /\ UNCHANGED <<fn, args, rnd>>
    /\ FactorizeUntouched

\* (A * A.transpose()).is_symmetric() for a random block A
CallIsSymmetric ==
    /\ fn = "is_symmetric"
    /\ ret = Pending
    /\ \E A \in {BlockA} : ret' = SymmetricOfSquare(A)
    /\ UNCHANGED <<fn, args, rnd>>
    /\ FactorizeUntouched

\* A.explicit_transpose() for a random block A
CallExplicitTranspose ==
    /\ fn = "explicit_transpose"
    /\ ret = Pending
    /\ \E A \in {BlockA} : ret' = Ok(explicit_transpose(A))
    /\ UNCHANGED <<fn, args, rnd>>
    /\ FactorizeUntouched

NextLinalg ==
    \/ CallCscTransposeMul
    \/ CallMulTranspose
    \/ CallIsSymmetric
    \/ CallExplicitTranspose

SpecLinalg == InitLinalg /\ [][NextLinalg]_vars

\* the row indices stored in column i of the CSC matrix M: ones[end[i-1]..end[i])
ColumnRows(M, i) ==
    {At(M.ones, j) : j \in (IF i = 0 THEN 0 ELSE At(M.end, i - 1))..(At(M.end, i) - 1)}

\* the sum over GF(2) of the rows of b whose index is in `rows`
XorOfRows(b, rows) ==
    {k \in 0..(N - 1) : Cardinality({r \in rows : k \in At(b, r)}) % 2 = 1}

\* C3: M.transpose() * B is the product of the transposed matrix with B over
\* GF(2): row i of the result is the XOR of B[r] over the rows r stored in
\* column i of M.
CscTransposeProduct ==
    (fn = "csc_transpose_mul" /\ ret # Pending) =>
        /\ Returned
        /\ Len(ret.value) = Len(args.m.end)
        /\ \A b \in {CscB} : \A i \in 0..(Len(args.m.end) - 1) :
              At(ret.value, i) = XorOfRows(b, ColumnRows(args.m, i))

\* a product of a two-column matrix whose second column holds two ones and
\* whose result rows differ
CscTransposeTwoOnes ==
    /\ fn = "csc_transpose_mul" /\ Returned
    /\ Len(args.m.end) = 2
    /\ Cardinality(ColumnRows(args.m, 1)) = 2
    /\ Cardinality(ColumnRows(args.m, 0)) = 1
    /\ At(ret.value, 0) # At(ret.value, 1)
    /\ At(ret.value, 1) # {}

\* the GF(2) inner product of the words x and y: the sum of x_k * y_k mod 2
InnerProduct(x, y) == Cardinality({k \in 0..(N - 1) : k \in x /\ k \in y}) % 2

\* bit (i, j) of the result of A * B.transpose() is <row i of A, row j of B>
MulTransposeBits ==
    /\ Returned
    /\ Len(ret.value) = args.n
    /\ \A A \in {BlockA}, B \in {BlockB} :
          \A i \in 0..(args.n - 1) : \A j \in 0..(N - 1) :
              (j \in At(ret.value, i)) = (InnerProduct(At(A, i), At(B, j)) = 1)

\* C4 as stated: for every n, n < N included, the product is produced and its
\* bit (i, j) is the inner product of row i of A and row j of B.
MulTransposeAnyRowCount ==
    (fn = "mul_transpose" /\ ret # Pending) => MulTransposeBits

\* C4, amended: the same for every A with n >= N rows.
MulTransposeAtLeastNRows ==
    (fn = "mul_transpose" /\ ret # Pending /\ args.n >= N) => MulTransposeBits

\* a product of a block of N + 1 rows with a nonzero last row and nonzero bit N - 1
MulTransposeTallBlock ==
    /\ fn = "mul_transpose" /\ Returned
    /\ args.n = N + 1
    /\ At(ret.value, N) # {}
    /\ \E i \in 0..N : (N - 1) \in At(ret.value, i)

\* C5 as stated: for every A with n >= N rows, A * A.transpose() is computed
\* and is_symmetric of it is true.
SquareSymmetricAtLeastNRows ==
    (fn = "is_symmetric" /\ ret # Pending /\ args.n >= N) => ret = Ok(TRUE)

\* C5, amended: for every A with exactly N rows, A * A.transpose() is
\* computed and is_symmetric of it is true.
SquareSymmetricNRows ==
    (fn = "is_symmetric" /\ ret # Pending /\ args.n = N) => ret = Ok(TRUE)

\* is_symmetric returned true for a block of N rows whose square is not zero
SquareSymmetricReached ==
    /\ fn = "is_symmetric" /\ ret = Ok(TRUE)
    /\ args.n = N
    /\ \E i \in 1..N : MulTranspose(BlockA, BlockA).value[i] # {}

\* explicit_transpose applied again: word column w of t, a block of N rows, is
\* transposed back into the rows w * N .. w * N + N - 1
Retranspose(t) ==
    LET n_words == Len(t[1])
        back(w) == explicit_transpose([j \in 1..N |-> At(At(t, j - 1), w)])
    IN  [i1 \in 1..(n_words * N) |-> At(At(back((i1 - 1) \div N), (i1 - 1) % N), 0)]

\* C6: explicit_transpose yields N rows of ceil(n / N) words in which bit
\* (i mod N) of word (i div N) of row j is bit j of input row i, and for n a
\* multiple of N transposing the result again gives back the block.
ExplicitTransposeInvolution ==
    (fn = "explicit_transpose" /\ Returned) =>
        /\ Len(ret.value) = N
        /\ \A j \in 0..(N - 1) : Len(At(ret.value, j)) * N \in args.n..(args.n + N - 1)
        /\ \A A \in {BlockA} :
              /\ \A i \in 0..(args.n - 1) : \A j \in 0..(N - 1) :
                    ((i % N) \in At(At(ret.value, j), i \div N)) = (j \in At(A, i))
              /\ (args.n % N = 0) => Retranspose(ret.value) = A

\* a block of 2 * N rows, transposed into rows of two nonzero words
ExplicitTransposeTwoWords ==
    /\ fn = "explicit_transpose" /\ Returned
    /\ args.n = 2 * N
    /\ Len(At(ret.value, 0)) = 2
    /\ At(At(ret.value, 0), 1) # {}
    /\ At(At(ret.value, 0), 1) # At(At(ret.value, 0), 0)

(***************************************************************************)
(* The bignum facade (rug::Integer) and nt::gcd: exact integer arithmetic. *)
(***************************************************************************)
Abs(x) == IF x < 0 THEN -x ELSE x

Min(x, y) == IF x <= y THEN x ELSE y

\* Rust's `%` on signed integers: the remainder has the sign of the dividend
Rem(x, y) == IF x >= 0 THEN x % Abs(y) ELSE -((-x) % Abs(y))

\* Rust's `/` on signed integers: the quotient is truncated towards zero
Quot(x, y) ==
    IF (x >= 0) = (y > 0) THEN Abs(x) \div Abs(y) ELSE -(Abs(x) \div Abs(y))

RECURSIVE Gcd(_, _)
\* nt::gcd and Integer::gcd: the non-negative greatest common divisor
Gcd(x, y) == IF y = 0 THEN Abs(x) ELSE Gcd(y, Abs(x) % Abs(y))

RECURSIVE Pow(_, _)
\* Integer::pow
Pow(x, e) == IF e = 0 THEN 1 ELSE x * Pow(x, e - 1)

RECURSIVE significant_bits(_)
\* Integer::significant_bits: the bit length of |x|
significant_bits(x) == IF x = 0 THEN 0 ELSE 1 + significant_bits(Abs(x) \div 2)

\* u64::ilog2 of x >= 1
ilog2(x) == significant_bits(x) - 1

RECURSIVE remove_factor(_, _, _)
\* Integer::remove_factor_mut: [num |-> what is left, e |-> how often p was removed]
remove_factor(num, p, e) ==
    IF num # 0 /\ Rem(num, p) = 0 THEN remove_factor(Quot(num, p), p, e + 1)
    ELSE [num |-> num, e |-> e]

RECURSIVE IsqrtBetween(_, _, _)
\* the largest r of lo..hi with r * r <= x, given lo * lo <= x
IsqrtBetween(x, lo, hi) ==
    IF lo = hi THEN lo
    ELSE LET mid == (lo + hi + 1) \div 2
         IN  IF mid * mid <= x THEN IsqrtBetween(x, mid, hi)
             ELSE IsqrtBetween(x, lo, mid - 1)

\* a square root that rounds up
IsqrtRoundedUp(x) ==
    LET r == IsqrtBetween(x, 0, Min(x, 46340))
    IN  IF r * r = x THEN r ELSE r + 1

\* Integer::sqrt of x >= 0: the truncated square root (46340 is the largest
\* root whose square TLC's integers hold)
Isqrt(x) == IsqrtBetween(x, 0, Min(x, 46340))

(***************************************************************************)
(* polynomial.rs (MpPolynomial): a polynomial is the sequence of its       *)
(* coefficients, the constant one first.                                   *)
(***************************************************************************)
degree(g) == Len(g) - 1

RECURSIVE EvaluateFrom(_, _, _)
\* Horner's rule from coefficient k downwards
EvaluateFrom(g, x, k) ==
    IF k > degree(g) THEN 0 ELSE At(g, k) + x * EvaluateFrom(g, x, k + 1)

evaluate(g, x) == EvaluateFrom(g, x, 0)

derivative(g) == [k \in 1..degree(g) |-> k * At(g, k)]

\* find_roots_mod_p: the roots of g modulo p, ascending
find_roots_mod_p(g, p) ==
    LET roots == {r \in 0..(p - 1) : evaluate(g, r) % p = 0}
        RECURSIVE Ascending(_, _)
        Ascending(r, acc) ==
            IF r = p THEN acc
            ELSE Ascending(r + 1, IF r \in roots THEN Append(acc, r) ELSE acc)
    IN  Ascending(0, <<>>)

(***************************************************************************)
(* params.rs and polynomial::select, on the integers factorize is called   *)
(* with here: f is the base-m expansion of n, of degree 2, and the         *)
(* parameters are sized for these small n, so that every product of a      *)
(* dependency stays below 2^31.                                            *)
(***************************************************************************)
\* the relations collected beyond the number of rows
OVERSQUARENESS == 1

Inputs == {39, 65, 91, 273}

ParamsNew(n) ==
    CASE n = 39 -> [polynomial_degree |-> 2, rational_base_size |-> 3,
                    algebraic_base_size |-> 4, quad_char_base_size |-> 1,
                    sieve_array_size |-> 20, rational_fudge |-> 3,
                    algebraic_threshold |-> 0]
      [] n = 65 -> [polynomial_degree |-> 2, rational_base_size |-> 3,
                    algebraic_base_size |-> 3, quad_char_base_size |-> 1,
                    sieve_array_size |-> 12, rational_fudge |-> 3,
                    algebraic_threshold |-> 0]
      [] n = 91 -> [polynomial_degree |-> 2, rational_base_size |-> 4,
                    algebraic_base_size |-> 4, quad_char_base_size |-> 1,
                    sieve_array_size |-> 20, rational_fudge |-> 3,
                    algebraic_threshold |-> 0]
      [] n = 273 -> [polynomial_degree |-> 2, rational_base_size |-> 4,
                     algebraic_base_size |-> 3, quad_char_base_size |-> 1,
                     sieve_array_size |-> 16, rational_fudge |-> 4,
                     algebraic_threshold |-> 0]

\* polynomial::select: (f, m) with f(m) = n
select(n) ==
    CASE n = 39 -> [f |-> <<3, 0, 1>>, m |-> 6]
      [] n = 65 -> [f |-> <<2, 2, 1>>, m |-> 7]
      [] n = 91 -> [f |-> <<3, 3, 1>>, m |-> 8]
      [] n = 273 -> [f |-> <<3, 3, 1>>, m |-> 15]

(***************************************************************************)
(* nfs.rs: the factor bases.                                               *)
(***************************************************************************)
RECURSIVE RationalBaseFrom(_, _, _, _)
\* `while base.len() < params.rational_base_size` from the prime candidate p on
RationalBaseFrom(p, base, m, size) ==
    IF ~(Len(base) < size) THEN base
    ELSE RationalBaseFrom(p + 1,
             IF miller_rabin(p) THEN Append(base, <<p, m % p>>) ELSE base,
             m, size)

rational_factor_base(m, params) ==
    RationalBaseFrom(2, <<>>, m, params.rational_base_size)

\* base.extend(roots.iter().map(|r| (p, *r)))
PairsWith(p, roots) == [k \in 1..Len(roots) |-> <<p, roots[k]>>]

truncate(base, size) == IF Len(base) > size THEN SubSeq(base, 1, size) ELSE base

RECURSIVE AlgebraicBaseFrom(_, _, _, _)
AlgebraicBaseFrom(p, base, f, size) ==
    IF ~(Len(base) < size) THEN base
    ELSE AlgebraicBaseFrom(p + 1,
             IF miller_rabin(p) THEN base \o PairsWith(p, find_roots_mod_p(f, p))
             ELSE base,
             f, size)

algebraic_factor_base(f, params) ==
    truncate(AlgebraicBaseFrom(2, <<>>, f, params.algebraic_base_size),
             params.algebraic_base_size)

\* the roots s of f modulo p with f'(s) not divisible by p, in order
SimpleRoots(f, p) ==
    LET roots == find_roots_mod_p(f, p)
        RECURSIVE Keep(_, _)
        Keep(k, acc) ==
            IF k > Len(roots) THEN acc
            ELSE Keep(k + 1,
                      IF Rem(evaluate(derivative(f), roots[k]), p) # 0
                      THEN Append(acc, roots[k]) ELSE acc)
    IN  Keep(1, <<>>)

RECURSIVE QuadCharBaseFrom(_, _, _, _)
QuadCharBaseFrom(p, base, f, size) ==
    IF ~(Len(base) < size) THEN base
    ELSE QuadCharBaseFrom(p + 1,
             IF miller_rabin(p) THEN base \o PairsWith(p, SimpleRoots(f, p))
             ELSE base,
             f, size)

quad_char_base(p, f, params) ==
    truncate(QuadCharBaseFrom(p, <<>>, f, params.quad_char_base_size),
             params.quad_char_base_size)

(***************************************************************************)
(* nfs.rs: ilog2_rounded, line_sieve, norm.                                *)
(***************************************************************************)
ilog2_rounded(x) == (ilog2(x * x) + 1) \div 2

RECURSIVE SieveStride(_, _, _, _)
\* `while i < sieve_array.len() { sieve_array[i] += log2p; i += p }`
SieveStride(sieve_array, k, p, log2p) ==
    IF k < Len(sieve_array)
    THEN SieveStride([sieve_array EXCEPT ![k + 1] = @ + log2p], k + p, p, log2p)
    ELSE sieve_array

\* a start index that leaves out the offset a0 of index 0
SieveStartWithoutOffset(bb, p, r, a0) == Rem((-((bb * r) % p)) + p, p)

\* the index line_sieve starts the stride of (p, r) at
SieveStart(bb, p, r, a0) == Rem((-((bb * r) % p)) + p - a0, p)

RECURSIVE LineSieveFrom(_, _, _, _)
\* `for (p, r) in base`, from entry k on
LineSieveFrom(bb, sieve_array, base, k) ==
    IF k > Len(base) THEN sieve_array
    ELSE LET p  == base[k][1]
             r  == base[k][2]
             a0 == -(Len(sieve_array) \div 2)
         IN  LineSieveFrom(bb,
                 IF bb % p # 0
                 THEN SieveStride(sieve_array, SieveStart(bb, p, r, a0), p,
                                  ilog2_rounded(p))
                 ELSE sieve_array,
                 base, k + 1)

line_sieve(bb, sieve_array, base) == LineSieveFrom(bb, sieve_array, base, 1)

\* vec![x; n] and Vec::fill
Filled(n, x) == [k \in 1..n |-> x]

RECURSIVE NormFrom(_, _, _, _, _, _)
\* `for coefficient in f.coefficients_ref().iter().take(d + 1)`, from coefficient k on
NormFrom(f, a, bb, k, u, v) ==
    IF k > degree(f) THEN 0
    ELSE At(f, k) * (u * v) + NormFrom(f, a, bb, k + 1, u * a, Quot(v, -bb))

\* norm with +b in the place of -b: b^d f(a/b)
norm_positive_b(f, a, bb) == NormFrom(f, a, -bb, 0, 1, Pow(bb, degree(f)))

norm(f, a, bb) == NormFrom(f, a, bb, 0, 1, Pow(-bb, degree(f)))

(***************************************************************************)
(* nfs.rs, factorize: what one sieve index does (lines 146-194).           *)
(***************************************************************************)
RECURSIVE RationalTrialFrom(_, _, _, _, _)
\* `for (i, (p, _)) in rational_base.iter().enumerate()`, from entry k on
RationalTrialFrom(num, ones_pos, base, begin, k) ==
    IF k > Len(base) THEN [num |-> num, ones_pos |-> ones_pos]
    ELSE LET t == remove_factor(num, base[k][1], 0)
         IN  RationalTrialFrom(t.num,
                 IF t.e % 2 = 1 THEN Append(ones_pos, begin + (k - 1)) ELSE ones_pos,
                 base, begin, k + 1)

\* trial division on the rational side: the sign row, then the primes
RationalTrial(a, bb, e) ==
    LET num == a + bb * e.m
    IN  IF num < 0 THEN RationalTrialFrom(-num, <<0>>, e.rational_base, e.rational_begin, 1)
        ELSE RationalTrialFrom(num, <<>>, e.rational_base, e.rational_begin, 1)

RECURSIVE AlgebraicTrialFrom(_, _, _, _, _, _, _)
\* `for (i, (p, r)) in algebraic_base.iter().enumerate()`, from entry k on
AlgebraicTrialFrom(a, bb, alg_norm, ones_pos, base, begin, k) ==
    IF k > Len(base) THEN [num |-> alg_norm, ones_pos |-> ones_pos]
    ELSE IF Rem(a + bb * base[k][2], base[k][1]) = 0
         THEN LET t == remove_factor(alg_norm, base[k][1], 0)
              IN  AlgebraicTrialFrom(a, bb, t.num,
                      IF t.e % 2 = 1 THEN Append(ones_pos, begin + (k - 1))
                      ELSE ones_pos,
                      base, begin, k + 1)
         ELSE AlgebraicTrialFrom(a, bb, alg_norm, ones_pos, base, begin, k + 1)

\* trial division on the algebraic side, continuing the column ones_pos
AlgebraicTrial(a, bb, ones_pos, e) ==
    AlgebraicTrialFrom(a, bb, norm(e.f, a, bb), ones_pos,
                       e.algebraic_base, e.algebraic_begin, 1)

RECURSIVE QuadCharsFrom(_, _, _, _, _, _)
\* `for (i, (p, s)) in quad_char_base.iter().enumerate()`, from entry k on
QuadCharsFrom(a, bb, ones_pos, base, begin, k) ==
    IF k > Len(base) THEN ones_pos
    ELSE LET p == base[k][1]
             s == base[k][2]
         IN  QuadCharsFrom(a, bb,
                 IF legendre(Rem(Rem(a + bb * s, p) + p, p), p) = p - 1
                 THEN Append(ones_pos, begin + (k - 1)) ELSE ones_pos,
                 base, begin, k + 1)

\* the statement `if nt::gcd(((a % b) + b), b) != 1 || a == 0 { continue; }`
Skipped(a, bb) == Gcd(Rem(a, bb) + bb, bb) # 1 \/ a = 0

\* the pair (a, b) of a sieve index that passed both thresholds:
\* whether it is smooth, and the column it gets if it is
Examine(a, bb, e) ==
    LET rat == RationalTrial(a, bb, e)
        alg == AlgebraicTrial(a, bb, rat.ones_pos, e)
    IN  [smooth   |-> rat.num = 1 /\ alg.num = 1,
         ones_pos |-> QuadCharsFrom(a, bb, alg.ones_pos, e.quad_char_base,
                                    e.quad_char_begin, 1)]

(***************************************************************************)
(* Specification Spec: factorize (nfs.rs) called on the integers of        *)
(* Inputs, one step per statement group of its two loops.                  *)
(***************************************************************************)
MaxLines == 5       \* the sieve is followed over the lines b = 1..MaxLines
MaxDeps == 2        \* find_dependencies returns at most MaxDeps dependencies
MaxLiftCoef == 2    \* algebraic_sqrt is called on integers a + b*theta with
                    \* |a| <= MaxLiftCoef, 1 <= b <= MaxLiftCoef
MaxLiftSeed == 11   \* and looks for its prime from an odd seed in 3..MaxLiftSeed
MaxLiftModulus == 32768   \* a modulus q is squared only if q <= MaxLiftModulus
MaxLogX == 300      \* ilog2_rounded alone is called on every x in 1..MaxLogX and on
                    \* the x around the powers of two and the rounding boundaries
MaxSieveLen == 7    \* line_sieve alone is called on arrays of 0..MaxSieveLen entries
MaxSieveB == 6      \* and on lines b = 1..MaxSieveB
MaxWeight == 2      \* a block outside find_dependencies's contract selects at most
                    \* MaxWeight relations

Init ==
    /\ FactorizeIdle
    /\ fn = "factorize"
    /\ args \in [n : Inputs]
    /\ rnd = <<>>
    /\ ret = Pending

\* lines 104-134: parameters, polynomial, factor bases, empty builder and arrays
Setup ==
    /\ fn = "factorize"
    /\ pc = "idle"
    /\ ret = Pending
    /\ LET params == ParamsNew(args.n)
           fm     == select(args.n)
           rational_base  == rational_factor_base(fm.m, params)
           algebraic_base == algebraic_factor_base(fm.f, params)
           qc_base == quad_char_base(algebraic_base[Len(algebraic_base)][1] + 1,
                                     fm.f, params)
           rational_begin  == 1
           algebraic_begin == rational_begin + Len(rational_base)
           quad_char_begin == algebraic_begin + Len(algebraic_base)
       IN  /\ env' = [n |-> args.n, params |-> params, f |-> fm.f, m |-> fm.m,
                      rational_base |-> rational_base,
                      algebraic_base |-> algebraic_base,
                      quad_char_base |-> qc_base,
                      rational_begin |-> rational_begin,
                      algebraic_begin |-> algebraic_begin,
                      quad_char_begin |-> quad_char_begin,
                      base_len |-> quad_char_begin + Len(qc_base)]
           /\ matrix_builder' = set_num_rows(BuilderNew, quad_char_begin + Len(qc_base))
           /\ rational_sieve_array' = Filled(params.sieve_array_size, 0)
           /\ algebraic_sieve_array' = Filled(params.sieve_array_size, 0)
    /\ relations' = <<>>
    /\ sieve_b' = 1
    /\ sieve_i' = 0
    /\ pc' = "line"
    /\ UNCHANGED <<callvars, depvars>>

\* lines 137-144: both arrays are refilled and sieved for the line b
BeginLine ==
    /\ pc = "line"
    /\ sieve_b <= MaxLines
    /\ rational_sieve_array' =
           line_sieve(sieve_b,
               Filled(env.params.sieve_array_size,
                      -(ilog2_rounded(sieve_b) + significant_bits(env.m))
                          + env.params.rational_fudge),
               env.rational_base)
    /\ algebraic_sieve_array' =
           line_sieve(sieve_b,
               Filled(env.params.sieve_array_size, -env.params.algebraic_threshold),
               env.algebraic_base)
    /\ sieve_i' = 0
    /\ pc' = "scan"
    /\ UNCHANGED <<callvars, env, sieve_b, relations, matrix_builder, depvars>>

\* lines 146-195: one turn of `for i in 0..params.sieve_array_size`
ScanIndex ==
    /\ pc = "scan"
    /\ sieve_i < env.params.sieve_array_size
    /\ LET a0 == -(env.params.sieve_array_size \div 2)
           a  == a0 + sieve_i
           passed == /\ At(rational_sieve_array, sieve_i) >= 0
                     /\ At(algebraic_sieve_array, sieve_i) >= 0
       IN  IF passed /\ ~Skipped(a, sieve_b)
           THEN \E pair \in {Examine(a, sieve_b, env)} :
                    IF pair.smooth
                    THEN /\ matrix_builder' = add_col(matrix_builder, pair.ones_pos)
                         /\ relations' = Append(relations, <<a, sieve_b>>)
                    ELSE UNCHANGED <<relations, matrix_builder>>
           ELSE UNCHANGED <<relations, matrix_builder>>
    /\ sieve_i' = sieve_i + 1
    /\ UNCHANGED <<callvars, pc, env, sieve_b, rational_sieve_array,
                   algebraic_sieve_array, depvars>>

\* the break test of line 197 with > in the place of >=
EndLineStrict ==
    /\ pc = "scan"
    /\ sieve_i = env.params.sieve_array_size
    /\ IF Len(relations) > env.base_len + OVERSQUARENESS
       THEN pc' = "lanczos" /\ UNCHANGED sieve_b
       ELSE pc' = "line" /\ sieve_b' = sieve_b + 1
    /\ UNCHANGED <<callvars, env, sieve_i, rational_sieve_array,
                   algebraic_sieve_array, relations, matrix_builder, depvars>>

\* lines 197-201: the sieve stops once there are enough relations
EndLine ==
    /\ pc = "scan"
    /\ sieve_i = env.params.sieve_array_size
    /\ IF Len(relations) >= env.base_len + OVERSQUARENESS
       THEN pc' = "lanczos" /\ UNCHANGED sieve_b
       ELSE pc' = "line" /\ sieve_b' = sieve_b + 1
    /\ UNCHANGED <<callvars, env, sieve_i, rational_sieve_array,
                   algebraic_sieve_array, relations, matrix_builder, depvars>>

(***************************************************************************)
(* polynomial.rs (MpPolynomial) in Z[x]/(f) for a monic f: a residue is    *)
(* the sequence of its degree(f) coefficients.                             *)
(***************************************************************************)
RECURSIVE SumSeq(_)
SumSeq(q) == IF q = <<>> THEN 0 ELSE Head(q) + SumSeq(Tail(q))

\* the coefficient of x^k in g * h
ProductCoefficient(g, h, k) ==
    SumSeq([i \in 1..Len(g) |->
               IF k - (i - 1) >= 0 /\ k - (i - 1) < Len(h)
               THEN g[i] * At(h, k - (i - 1)) ELSE 0])

PolyMul(g, h) == [k \in 1..(Len(g) + Len(h) - 1) |-> ProductCoefficient(g, h, k - 1)]

RECURSIVE Reduce(_, _)
\* the remainder of g by the monic f: the leading term of g is cancelled
\* with a shifted multiple of f until the degree is below degree(f)
Reduce(g, f) ==
    IF Len(g) <= degree(f) THEN g
    ELSE LET top   == g[Len(g)]
             shift == Len(g) - Len(f)
         IN  Reduce([k \in 1..(Len(g) - 1) |->
                        IF k > shift THEN g[k] - top * f[k - shift] ELSE g[k]],
                    f)

\* f.mul_mod(g, h)
mul_mod(f, g, h) == Reduce(PolyMul(g, h), f)

(***************************************************************************)
(* sqrt.rs: the products of a dependency, and the contract of the          *)
(* algebraic square root factorize calls.                                  *)
(***************************************************************************)
RECURSIVE mul_rational_integers(_)
\* the product by halving; the sequence is not empty
mul_rational_integers(integers) ==
    IF Len(integers) = 1 THEN integers[1]
    ELSE LET half == Len(integers) \div 2
         IN  mul_rational_integers(SubSeq(integers, 1, half))
                 * mul_rational_integers(SubSeq(integers, half + 1, Len(integers)))

RECURSIVE mul_algebraic_integers(_, _)
mul_algebraic_integers(integers, f) ==
    IF Len(integers) = 1 THEN integers[1]
    ELSE LET half == Len(integers) \div 2
         IN  mul_mod(f,
                 mul_algebraic_integers(SubSeq(integers, 1, half), f),
                 mul_algebraic_integers(SubSeq(integers, half + 1, Len(integers)), f))

\* For f = x^2 + c1 x + c0 and beta = u + v x, beta^2 mod f is
\* (u^2 - c0 v^2) + v (2u - c1 v) x.  A root of s = s0 + s1 x therefore has
\* v = 0 and u^2 = s0, or v dividing s1 and 2u = s1 / v + c1 v; for s1 = 0
\* and v # 0 it has 2u = c1 v and D v^2 = 4 s0, D = c1^2 - 4 c0.  The
\* polynomials of select have D < 0, so that the norm
\* ((2u - c1 v)^2 + |D| v^2) / 4 of beta is the root of the norm of s and at
\* most bound: this limits v and 2u - c1 v.
RootCandidates(s, f) ==
    LET c0 == f[1]
        c1 == f[2]
        D  == Abs(c1 * c1 - 4 * c0)
        bound == (Abs(2 * s[1] - c1 * s[2]) + D * Abs(s[2])) \div 2 + 1
        vmax  == Isqrt((4 * bound) \div D)
        wmax  == Isqrt(4 * bound)
        r  == Isqrt(Abs(s[1]))
        w  == Isqrt(Abs(4 * s[1]) \div D)
    IN  {<<r, 0>>, <<-r, 0>>}
        \cup (IF s[2] = 0
              THEN {<<(c1 * v) \div 2, v>> : v \in {w, -w}}
              ELSE UNION {{<<((s[2] \div v) + c1 * v) \div 2, v>>,
                           <<(-(s[2] \div v) - c1 * v) \div 2, -v>>} :
                          v \in {v \in 1..Min(Abs(s[2]), vmax) :
                                    s[2] % v = 0 /\ Abs(s[2]) \div v <= wmax}})

\* the square roots of s in Z[x]/(f)
SquareRoots(s, f) == {beta \in RootCandidates(s, f) : mul_mod(f, beta, beta) = s}

NoRoot == [status |-> "none"]

\* sqrt::algebraic_sqrt(s, f) -> Option<MpPolynomial>: Some(beta) for a beta
\* with beta^2 = s (mod f), or None
algebraic_sqrt(s, f) == {Ok(beta) : beta \in SquareRoots(s, f)} \cup {NoRoot}

(***************************************************************************)
(* lanczos::find_dependencies, by its contract: num_dependencies columns   *)
(* of the kernel of the matrix, linearly independent over GF(2).  A        *)
(* dependency is the set of the columns (relations) it selects.            *)
(***************************************************************************)
NumCols(M) == Len(M.end)

\* the positions of `ones` that hold column j (0-based)
ColumnSpan(M, j) == ((IF j = 0 THEN 0 ELSE At(M.end, j - 1)) + 1)..At(M.end, j)

\* A * v over GF(2) is zero: every row is hit an even number of times
InKernel(M, v) ==
    \A row \in 0..(M.num_rows - 1) :
        Cardinality({jk \in UNION {{<<j, k>> : k \in ColumnSpan(M, j)} : j \in v} :
                        M.ones[jk[2]] = row}) % 2 = 0

Kernel(M) == {v \in SUBSET (0..(NumCols(M) - 1)) : v # {} /\ InKernel(M, v)}

\* the sum over GF(2) of the dependencies deps[t], t in T
XorAll(deps, T) ==
    {j \in UNION {deps[t] : t \in T} : Cardinality({t \in T : j \in deps[t]}) % 2 = 1}

LinearlyIndependent(deps) ==
    \A T \in SUBSET (DOMAIN deps) : T # {} => XorAll(deps, T) # {}

RECURSIVE DependencyLists(_, _)
\* the lists of k linearly independent kernel vectors
DependencyLists(K, k) ==
    IF k = 0 THEN {<<>>}
    ELSE {deps \in {Append(d, v) : d \in DependencyLists(K, k - 1), v \in K} :
             LinearlyIndependent(deps)}

\* the block with one row per relation: bit i of row j says whether
\* dependency i selects relation j
BlockOf(deps, num_cols) ==
    [j \in 1..num_cols |-> {i \in 0..(Len(deps) - 1) : (j - 1) \in deps[i + 1]}]

find_dependencies(M) ==
    {[mat |-> BlockOf(deps, NumCols(M)), num_dependencies |-> Len(deps)] :
        deps \in UNION {DependencyLists(Kernel(M), k) : k \in 0..Min(MaxDeps, N)}}

\* a gather that reads dependency 0 on every turn
GatherFirstDependency(block, i, j, acc) ==
    SelectSeq([k \in 1..Len(block) |-> k - 1], LAMBDA k : 0 \in At(block, k))

(***************************************************************************)
(* nfs.rs, factorize: the dependency loop (lines 205-277).                 *)
(***************************************************************************)
RECURSIVE GatherFrom(_, _, _, _)
\* `for (j, (a, b)) in relations.iter().enumerate()`: the indices j whose
\* bit i of mat[j] is set, from index j on
GatherFrom(block, i, j, acc) ==
    IF j >= Len(block) THEN acc
    ELSE GatherFrom(block, i, j + 1, IF i \in At(block, j) THEN Append(acc, j) ELSE acc)

\* x of line 236 without its factor f'(m)
RationalSideNoDerivative(rational, f, m) == Isqrt(mul_rational_integers(rational))

\* x of line 236: the root of the rational product, times f'(m)
RationalSide(rational, f, m) ==
    Isqrt(mul_rational_integers(rational)) * evaluate(derivative(f), m)

\* s of lines 238-241: the algebraic product, times f'^2
AlgebraicSide(algebraic, f) ==
    mul_mod(f, mul_algebraic_integers(algebraic, f),
            mul_mod(f, derivative(f), derivative(f)))

\* lines 256-260 and 266-270, with the larger cofactor pushed
PushFactorLarger(fs, x, n) ==
    LET g == Gcd(x, n)
    IN  IF g # 1 /\ g # n THEN Append(fs, g) ELSE fs

\* lines 256-260 and 266-270: `if g != 1 && &g != n { factors.push(min(n / g, g)) }`
PushFactor(fs, x, n) ==
    LET g == Gcd(x, n)
    IN  IF g # 1 /\ g # n THEN Append(fs, Min(n \div g, g)) ELSE fs

RECURSIVE Insert(_, _)
Insert(sorted, x) ==
    IF sorted = <<>> THEN <<x>>
    ELSE IF x <= Head(sorted) THEN <<x>> \o sorted
         ELSE <<Head(sorted)>> \o Insert(Tail(sorted), x)

RECURSIVE sort_unstable(_)
sort_unstable(q) == IF q = <<>> THEN <<>> ELSE Insert(sort_unstable(Tail(q)), Head(q))

RECURSIVE dedup(_)
\* Vec::dedup: consecutive repeated elements are removed
dedup(q) ==
    IF Len(q) <= 1 THEN q
    ELSE IF q[1] = q[2] THEN dedup(Tail(q))
         ELSE <<q[1]>> \o dedup(Tail(q))

\* line 205: the matrix is built and handed to Block Lanczos
FindDependencies ==
    /\ pc = "lanczos"
    /\ LET built == build(matrix_builder)
       IN  IF built = Panic
           THEN /\ pc' = "panic"
                /\ ret' = Panic
                /\ UNCHANGED <<mat, num_dependencies>>
           ELSE /\ \E found \in find_dependencies(built.value) :
                      /\ mat' = found.mat
                      /\ num_dependencies' = found.num_dependencies
                /\ pc' = "deps"
                /\ UNCHANGED ret
    /\ dep' = 0
    /\ factors' = <<>>
    /\ last' = <<>>
    /\ UNCHANGED <<fn, args, rnd, env, sievevars>>

\* sqrt::rational_sqrt (sqrt.rs:167-172), which factorize does not call:
\* the root of the product, asserted to be a perfect square
rational_sqrt(integers) ==
    LET prod == mul_rational_integers(integers)
    IN  IF prod >= 0 /\ Isqrt(prod) * Isqrt(prod) = prod THEN Ok(Isqrt(prod)) ELSE Panic

\* x.square() % n of line 247; the square is taken of x % n, which gives
\* the same residue with smaller numbers
SquareMod(x, n) == Rem(Rem(x, n) * Rem(x, n), n)

\* lines 247-271, for the root the algebraic side gave: the assertion, the
\* swap and the two gcds
UseRoot(selected, root, a, b, n) ==
    LET x == IF a < b THEN b ELSE a
        y == IF a < b THEN a ELSE b
    IN  IF SquareMod(a, n) # SquareMod(b, n)
        THEN /\ last' = [selected |-> selected, root |-> root, a |-> a, b |-> b,
                         pushed |-> <<>>, failed |-> "assert_eq"]
             /\ pc' = "panic"
             /\ ret' = Panic
             /\ UNCHANGED <<dep, factors>>
        ELSE /\ last' = [selected |-> selected, root |-> root, a |-> a, b |-> b,
                         pushed |-> PushFactor(PushFactor(<<>>, Rem(x + y, n), n),
                                               Rem(x - y, n), n),
                         failed |-> "no"]
             /\ factors' = PushFactor(PushFactor(factors, Rem(x + y, n), n),
                                      Rem(x - y, n), n)
             /\ dep' = dep + 1
             /\ UNCHANGED <<pc, ret>>

\* lines 208-272: one turn of `for i in 0..num_dependencies`
ProcessDependency ==
    /\ pc = "deps"
    /\ dep < num_dependencies
    /\ \E selected \in {GatherFrom(mat, dep, 0, <<>>)} :
         LET rational  == [k \in 1..Len(selected) |->
                              At(relations, selected[k])[1]
                                  + At(relations, selected[k])[2] * env.m]
             algebraic == [k \in 1..Len(selected) |-> At(relations, selected[k])]
         IN  IF mul_rational_integers(rational) < 0
             THEN \* Integer::sqrt panics on a negative operand
                  /\ last' = [selected |-> selected, root |-> NoRoot, failed |-> "sqrt"]
                  /\ pc' = "panic"
                  /\ ret' = Panic
                  /\ UNCHANGED <<dep, factors>>
             ELSE \E a \in {RationalSide(rational, env.f, env.m)},
                     s \in {AlgebraicSide(algebraic, env.f)} :
                    \E root \in algebraic_sqrt(s, env.f) :
                        IF root = NoRoot
                        THEN /\ last' = [selected |-> selected, root |-> root,
                                         a |-> a, failed |-> "no"]
                             /\ dep' = dep + 1
                             /\ UNCHANGED <<pc, ret, factors>>
                        ELSE UseRoot(selected, root, a,
                                     evaluate(root.value, env.m), env.n)
    /\ UNCHANGED <<fn, args, rnd, env, sievevars, mat, num_dependencies>>

\* lines 274-277: the factors are sorted, deduplicated and returned
Finish ==
    /\ pc = "deps"
    /\ dep = num_dependencies
    /\ factors' = dedup(sort_unstable(factors))
    /\ ret' = Ok(dedup(sort_unstable(factors)))
    /\ pc' = "done"
    /\ UNCHANGED <<fn, args, rnd, env, sievevars, mat, num_dependencies, dep, last>>

Next == Setup \/ BeginLine \/ ScanIndex \/ EndLine \/ FindDependencies
            \/ ProcessDependency \/ Finish

Spec == Init /\ [][Next]_vars

(***************************************************************************)
(* Properties of factorize.                                                *)
(***************************************************************************)
\* the norm of the algebraic integer a + b*theta, theta a root of f:
\* the sum of c_k a^k (-b)^(d-k), which is (-b)^d f(-a/b)
NormOfElement(f, a, bb) ==
    SumSeq([k \in 1..Len(f) |-> f[k] * Pow(a, k - 1) * Pow(-bb, Len(f) - k)])

\* the homogeneous norm b^d f(a/b): the sum of c_k a^k b^(d-k)
HomogeneousNorm(f, a, bb) ==
    SumSeq([k \in 1..Len(f) |-> f[k] * Pow(a, k - 1) * Pow(bb, Len(f) - k)])

RECURSIVE Valuation(_, _)
\* the exponent of p in x >= 1
Valuation(x, p) == IF x % p = 0 THEN 1 + Valuation(x \div p, p) ELSE 0

\* x is, up to sign, a product of primes of the base
FactorsOver(x, base) ==
    /\ x # 0
    /\ \A q \in 2..Abs(x) :
           Abs(x) % q = 0 /\ IsPrime(q) => \E k \in DOMAIN base : base[k][1] = q

Coprime(x, y) == \A q \in 2..y : ~(Abs(x) % q = 0 /\ y % q = 0)

Odd(x) == x % 2 = 1

\* the rows of the sign, of the rational primes and of the algebraic ideals
\* that the pair (a, b) has exponent parity 1 in, nm being its norm
ExponentRows(a, bb, nm) ==
    UNION {{row \in {0} : rational < 0}
           \cup {env.rational_begin + (k - 1) : k \in
                    {k \in DOMAIN env.rational_base :
                        Odd(Valuation(Abs(rational), env.rational_base[k][1]))}}
           \cup {env.algebraic_begin + (k - 1) : k \in
                    {k \in DOMAIN env.algebraic_base :
                        /\ (a + bb * env.algebraic_base[k][2])
                               % env.algebraic_base[k][1] = 0
                        /\ Odd(Valuation(Abs(nm), env.algebraic_base[k][1]))}} :
           rational \in {a + bb * env.m}}

\* every relation is sound, for the norm Nm
RelationsSound(Nm(_, _, _)) ==
    pc # "idle" =>
        \A j \in 1..Len(relations) :
            \A a \in {relations[j][1]}, bb \in {relations[j][2]} :
                \A nm \in {Nm(env.f, a, bb)} :
                    /\ a # 0
                    /\ bb >= 1
                    /\ Coprime(a, bb)
                    /\ FactorsOver(a + bb * env.m, env.rational_base)
                    /\ nm >= 1
                    /\ FactorsOver(nm, env.algebraic_base)
                    /\ {row \in ColumnRows(matrix_builder, j - 1) :
                           row < env.quad_char_begin}
                           = ExponentRows(a, bb, nm)

\* C7 as stated, the norm of (a, b) being the homogeneous norm
\* N_f(a, b) = b^d f(a/b): every relation (a, b) has a # 0, gcd(|a|, b) = 1,
\* a + b*m smooth over the rational base, N_f(a, b) smooth over the algebraic
\* base, and its column holds row 0 iff a + b*m < 0, row 1+i iff the i-th
\* rational prime has odd exponent in |a + b*m|, row 1+Br+i iff the i-th
\* algebraic ideal has odd exponent in N_f(a, b).
RelationSoundnessHomogeneous == RelationsSound(HomogeneousNorm)

\* C7, amended: the same with the norm of a + b*theta, (-b)^d f(-a/b), in
\* the place of b^d f(a/b).
RelationSoundness == RelationsSound(NormOfElement)

\* C7 witness: a relation whose two norms differ was appended, with an odd
\* exponent on each side
RelationWithOddExponents ==
    /\ pc # "idle"
    /\ \E j \in 1..Len(relations) :
           /\ HomogeneousNorm(env.f, relations[j][1], relations[j][2])
                  # NormOfElement(env.f, relations[j][1], relations[j][2])
           /\ \E row \in ColumnRows(matrix_builder, j - 1) :
                  row >= env.rational_begin /\ row < env.algebraic_begin
           /\ \E row \in ColumnRows(matrix_builder, j - 1) :
                  row >= env.algebraic_begin /\ row < env.quad_char_begin

\* the least prime factor of n >= 2
LeastPrimeFactor(n) == CHOOSE p \in 2..n : n % p = 0 /\ \A q \in 2..(p - 1) : n % q # 0

\* n = p * q for primes p < q
IsSemiprime(n) ==
    \E p \in {LeastPrimeFactor(n)} : p * p < n /\ n % (p * p) # 0 /\ IsPrime(n \div p)

\* C8: every element g of the list factorize returns has 1 < g < N, divides N
\* and is at most N / g; the list is strictly increasing; for a semiprime N
\* a non-empty list is [p], p the smaller prime factor.
FactorsAreNontrivialSorted ==
    pc = "done" =>
        /\ ret.status = "ok"
        /\ \A k \in DOMAIN ret.value :
               /\ 1 < ret.value[k] /\ ret.value[k] < args.n
               /\ args.n % ret.value[k] = 0
               /\ ret.value[k] <= args.n \div ret.value[k]
        /\ \A k \in 1..(Len(ret.value) - 1) : ret.value[k] < ret.value[k + 1]
        /\ IsSemiprime(args.n) /\ ret.value # <<>>
               => ret.value = <<LeastPrimeFactor(args.n)>>

\* C8 witness: factorize returned two factors, pushed in descending order
TwoFactorsReturned ==
    /\ pc = "done"
    /\ Len(ret.value) = 2
    /\ last # <<>>
    /\ last.root # NoRoot
    /\ \E k \in 1..(Len(last.pushed) - 1) : last.pushed[k] > last.pushed[k + 1]

RECURSIVE ProductOf(_)
ProductOf(q) == IF q = <<>> THEN 1 ELSE Head(q) * ProductOf(Tail(q))

\* x and y are congruent modulo n
Congruent(x, y, n) == (x - y) % n = 0

\* C9: whenever a turn of the dependency loop obtained an algebraic root
\* beta, its x is isqrt(prod(a_i + b_i*m)) * f'(m), its y is beta(m), and
\* x^2 = y^2 (mod N): the assertion of line 247 did not fail.
CongruenceOfSquares ==
    (last # <<>> /\ last.root # NoRoot) =>
        LET product == ProductOf([k \in DOMAIN last.selected |->
                           At(relations, last.selected[k])[1]
                               + At(relations, last.selected[k])[2] * env.m])
            fprime  == SumSeq([k \in 1..(Len(env.f) - 1) |->
                           k * env.f[k + 1] * Pow(env.m, k - 1)])
            x == Isqrt(product) * fprime
            y == SumSeq([k \in DOMAIN last.root.value |->
                           last.root.value[k] * Pow(env.m, k - 1)])
        IN  /\ last.failed = "no"
            /\ pc # "panic"
            /\ product >= 0
            /\ last.a = x
            /\ last.b = y
            /\ Congruent((x % env.n) * (x % env.n), (y % env.n) * (y % env.n), env.n)

\* C9 witness: a dependency with an algebraic root passed the assertion and
\* gave a factor
RootGaveFactor ==
    /\ last # <<>>
    /\ last.root # NoRoot
    /\ last.failed = "no"
    /\ last.pushed # <<>>

\* the parity vector of the pair (a, b): its exponent rows, and the rows of
\* the quadratic characters (p, s) that a + b*s is a non-residue for
ParityVector(a, bb) ==
    ExponentRows(a, bb, NormOfElement(env.f, a, bb))
        \cup {env.quad_char_begin + (k - 1) : k \in
                 {k \in DOMAIN env.quad_char_base :
                     LET p == env.quad_char_base[k][1]
                         t == (a + bb * env.quad_char_base[k][2]) % p
                     IN  t # 0 /\ ~IsQuadraticResidue(t, p)}}

\* relation q comes before relation r in the order of the sieve
SievedBefore(q, r) == q[2] < r[2] \/ (q[2] = r[2] /\ q[1] < r[1])

\* one column per relation, each the parity vector of its relation; the
\* relations in the order of the sieve, none beyond the index the scan is at
ColumnsParallelOrdered ==
    pc # "idle" =>
        /\ Len(matrix_builder.end) = Len(relations)
        /\ \A j \in 1..Len(relations) :
               /\ ColumnRows(matrix_builder, j - 1)
                      = ParityVector(relations[j][1], relations[j][2])
               /\ At(matrix_builder.end, j - 1)
                      - (IF j = 1 THEN 0 ELSE At(matrix_builder.end, j - 2))
                      = Cardinality(ColumnRows(matrix_builder, j - 1))
               /\ relations[j][2] <= sieve_b
               /\ (pc = "scan" /\ relations[j][2] = sieve_b)
                      => relations[j][1] < sieve_i - (env.params.sieve_array_size \div 2)
        /\ \A j \in 1..(Len(relations) - 1) : SievedBefore(relations[j], relations[j + 1])

\* C10: after every step of the sieve the builder holds one column per
\* relation, column j is the parity vector of relations[j], and the relations
\* are ordered by b and, within a line, by a; a step that changes relations
\* appends one relation to them.
ColumnsFollowRelations ==
    [][sievevars' # sievevars =>
           /\ ColumnsParallelOrdered'
           /\ relations' # relations =>
                  /\ Len(relations') = Len(relations) + 1
                  /\ SubSeq(relations', 1, Len(relations)) = relations]_vars

\* C10 witness: relations of two lines are held, one of them with an empty
\* column
TwoLinesAndEmptyColumn ==
    /\ pc = "scan"
    /\ \E j \in 1..Len(relations) : relations[j][2] < sieve_b
    /\ \E j \in 1..Len(relations) : relations[j][2] = sieve_b
    /\ \E j \in 1..Len(relations) : ColumnRows(matrix_builder, j - 1) = {}

\* R + OVERSQUARENESS, R = 1 + Br + Ba + Bq
RelationsWanted ==
    1 + env.params.rational_base_size + env.params.algebraic_base_size
        + env.params.quad_char_base_size + OVERSQUARENESS

\* C11: a further line is sieved only while there are fewer than
\* R + OVERSQUARENESS relations, the loop over b is left only with at least
\* that many, and the matrix handed to Block Lanczos, like the block it
\* returns, has at least R + OVERSQUARENESS columns.
SieveStopsWhenEnough ==
    [][/\ (pc = "scan" /\ pc' = "line") =>
              Len(relations) < RelationsWanted /\ sieve_b' = sieve_b + 1
       /\ (pc = "line" /\ pc' = "scan") => Len(relations) < RelationsWanted
       /\ (pc = "scan" /\ pc' = "lanczos") =>
              Len(relations') >= RelationsWanted /\ sieve_b' = sieve_b
       /\ (pc = "lanczos" /\ pc' = "deps") =>
              /\ Len(matrix_builder.end) >= RelationsWanted
              /\ Len(mat') = Len(matrix_builder.end)
       /\ (pc \in {"idle", "line", "scan"}) => pc' \in {"line", "scan", "lanczos"}]_vars

\* C11 witness: the sieve stopped after more than one line, the line before
\* having ended with too few relations
SieveStoppedAfterSeveralLines ==
    /\ pc = "lanczos"
    /\ sieve_b > 1
    /\ Len(relations) >= RelationsWanted
    /\ Cardinality({j \in 1..Len(relations) : relations[j][2] < sieve_b}) < RelationsWanted

(***************************************************************************)
(* Specification SpecAnyBlock: factorize when find_dependencies returns a  *)
(* block whose column need not be in the kernel of the matrix; this is     *)
(* the case the checks on a dependency's products are there for.           *)
(***************************************************************************)
\* the blocks of one column that selects 1..MaxWeight relations
any_block(M) ==
    {[mat |-> BlockOf(<<v>>, NumCols(M)), num_dependencies |-> 1] :
        v \in {v \in SUBSET (0..(NumCols(M) - 1)) :
                  v # {} /\ Cardinality(v) <= MaxWeight}}

\* line 205, with a block that is not bound to the kernel
FindAnyBlock ==
    /\ pc = "lanczos"
    /\ \E built \in {build(matrix_builder)} :
           IF built = Panic
           THEN /\ pc' = "panic"
                /\ ret' = Panic
                /\ UNCHANGED <<mat, num_dependencies>>
           ELSE /\ \E found \in any_block(built.value) :
                      /\ mat' = found.mat
                      /\ num_dependencies' = found.num_dependencies
                /\ pc' = "deps"
                /\ UNCHANGED ret
    /\ dep' = 0
    /\ factors' = <<>>
    /\ last' = <<>>
    /\ UNCHANGED <<fn, args, rnd, env, sievevars>>

NextAnyBlock == Setup \/ BeginLine \/ ScanIndex \/ EndLine \/ FindAnyBlock
                    \/ ProcessDependency \/ Finish

SpecAnyBlock == Init /\ [][NextAnyBlock]_vars

\* the rational integers a_i + b_i*m of the dependency the latest turn gathered
LastRational ==
    [k \in DOMAIN last.selected |->
        At(relations, last.selected[k])[1] + At(relations, last.selected[k])[2] * env.m]

\* the largest r with r * r <= x, for x >= 0
FloorRoot(x) ==
    CHOOSE r \in 0..Pow(2, (significant_bits(x) + 1) \div 2) :
        r * r <= x /\ x < (r + 1) * (r + 1)

IsPerfectSquare(x) == x >= 0 /\ FloorRoot(x) * FloorRoot(x) = x

\* f'(m)
DerivativeAtM == SumSeq([k \in 1..(Len(env.f) - 1) |-> k * env.f[k + 1] * Pow(env.m, k - 1)])

\* the latest dependency is in the kernel of the matrix the sieve built
LastInKernel ==
    InKernel(build(matrix_builder).value, {last.selected[k] : k \in DOMAIN last.selected})

SelectedBy(i) == SelectSeq([k \in 1..Len(mat) |-> k - 1], LAMBDA k : i \in At(mat, k))

\* the latest turn of the dependency loop was skipped for want of a root
SkippedNoRoot == last # <<>> /\ last.root = NoRoot /\ last.failed = "no"

SievePrimes == {2, 3, 5}

SieveEntries == {e \in SievePrimes \X (0..4) : e[2] < e[1]}

SieveBases == {<<>>} \cup {<<e>> : e \in SieveEntries}
                  \cup {<<e1, e2>> : e1 \in SieveEntries, e2 \in SieveEntries}

InitSieve ==
    /\ FactorizeIdle
    /\ fn = "line_sieve"
    /\ args \in [b : 1..MaxSieveB,
                 sieve_array : {Filled(S, x) : S \in 0..MaxSieveLen, x \in {-3, 0}},
                 base : SieveBases]
    /\ rnd = <<>>
    /\ ret = Pending

CallLineSieve ==
    /\ fn = "line_sieve"
    /\ ret = Pending
    /\ ret' = Ok(line_sieve(args.b, args.sieve_array, args.base))
    /\ UNCHANGED <<fn, args, rnd>>
    /\ FactorizeUntouched

NextSieve == CallLineSieve

SpecSieve == InitSieve /\ [][NextSieve]_vars

\* the entries of base whose stride passes index i of an array of S entries on
\* line bb: p does not divide bb and a0 + i = -bb*r (mod p), a0 = -(S / 2)
HitsAt(bb, S, base, i) ==
    {k \in DOMAIN base :
        /\ bb % base[k][1] # 0
        /\ (i - (S \div 2) + bb * base[k][2]) % base[k][1] = 0}

\* C14: line_sieve(b, sieve, base) returns the array in which entry i has
\* gained ilog2_rounded(p) once for every base entry (p, r) with p not
\* dividing b and a0 + i = -b*r (mod p), a0 = -(S / 2), and nothing else; the
\* start index of such an entry lies in [0, p) and is on its stride.
LineSieveHits ==
    (fn = "line_sieve" /\ Returned) =>
        \A S \in {Len(args.sieve_array)} :
            /\ Len(ret.value) = S
            /\ \A i \in 0..(S - 1) :
                   At(ret.value, i) = At(args.sieve_array, i)
                       + SumSeq([k \in DOMAIN args.base |->
                                    IF k \in HitsAt(args.b, S, args.base, i)
                                    THEN ilog2_rounded(args.base[k][1]) ELSE 0])
            /\ \A k \in DOMAIN args.base :
                   args.b % args.base[k][1] # 0 =>
                       \A i0 \in {SieveStart(args.b, args.base[k][1], args.base[k][2], -(S \div 2))} :
                           /\ i0 \in 0..(args.base[k][1] - 1)
                           /\ (i0 - (S \div 2) + args.b * args.base[k][2]) % args.base[k][1] = 0

\* C14 witness: a call on an array of odd length with a base of two entries,
\* one whose prime divides b and is left out, one that hits several indices,
\* and an index no entry hits
LineSieveSkipsAndHits ==
    /\ fn = "line_sieve" /\ Returned
    /\ Len(args.sieve_array) % 2 = 1
    /\ Len(args.base) = 2
    /\ args.b % args.base[1][1] = 0
    /\ args.b % args.base[2][1] # 0
    /\ Cardinality({i \in DOMAIN ret.value : ret.value[i] # args.sieve_array[i]}) >= 2
    /\ \E i \in DOMAIN ret.value : ret.value[i] = args.sieve_array[i]

(***************************************************************************)
(* ilog2_rounded on the whole of its u64 argument.  A u64 is kept as its   *)
(* two 16-bit halves [hi, lo] (hi = 65536 stands for 2^32) and multiplied  *)
(* as a sequence of base-256 digits, least significant first, without high *)
(* zero digits, so that no product leaves the integers of the checker.     *)
(***************************************************************************)
RECURSIVE Trim(_)
Trim(d) == IF d # <<>> /\ d[Len(d)] = 0 THEN Trim(SubSeq(d, 1, Len(d) - 1)) ELSE d

FromHalves(x) ==
    Trim(<<x.lo % 256, x.lo \div 256, x.hi % 256, (x.hi \div 256) % 256, x.hi \div 65536>>)

RECURSIVE Carry(_, _, _)
\* the digits of the number whose columns (digit sums) are cols, from column k on
Carry(cols, k, c) ==
    IF k > Len(cols) THEN <<>>
    ELSE <<(cols[k] + c) % 256>> \o Carry(cols, k + 1, (cols[k] + c) \div 256)

\* the full product of two digit sequences
WideMul(a, b) ==
    Trim(Carry([k \in 1..(Len(a) + Len(b)) |->
                    SumSeq([i \in 1..Len(a) |->
                               IF k + 1 - i \in 1..Len(b) THEN a[i] * b[k + 1 - i] ELSE 0])],
               1, 0))

\* the number of significant bits of a digit sequence
WideBits(d) == IF d = <<>> THEN 0 ELSE 8 * (Len(d) - 1) + significant_bits(d[Len(d)])

\* the low 64 bits: what a wrapping u64 operation keeps
Low64(d) == Trim(SubSeq(d, 1, Min(Len(d), 8)))

\* a logarithm that rounds down
ilog2_floor_u64(x) == {Ok(WideBits(FromHalves(x)) - 1)}

\* nfs.rs:69-71 on u64: `x * x` aborts on overflow in a build with overflow
\* checks and wraps in one without; u64::ilog2 aborts on 0
ilog2_rounded_u64(x) ==
    LET sq == WideMul(FromHalves(x), FromHalves(x))
        ilog2_rounded_of(v) == IF v = <<>> THEN Panic ELSE Ok(((WideBits(v) - 1) + 1) \div 2)
    IN  IF Len(sq) > 8
        THEN {Panic, ilog2_rounded_of(Low64(sq))}
        ELSE {ilog2_rounded_of(sq)}

\* floor(2^31 * sqrt(2)) = 3037000499 = 46340 * 2^16 + 62259
Sqrt2Halves == [hi |-> 46340, lo |-> 62259]

\* floor(2^j * sqrt(2)) = floor(2^31 * sqrt(2)) >> (31 - j), for j in -1..31
RoundingBoundary(j) ==
    IF 31 - j >= 16
    THEN [hi |-> 0, lo |-> Sqrt2Halves.hi \div Pow(2, 15 - j)]
    ELSE [hi |-> Sqrt2Halves.hi \div Pow(2, 31 - j),
          lo |-> (Sqrt2Halves.hi % Pow(2, 31 - j)) * Pow(2, j - 15)
                     + Sqrt2Halves.lo \div Pow(2, 31 - j)]

PlusOne(x) == IF x.lo = 65535 THEN [hi |-> x.hi + 1, lo |-> 0] ELSE [hi |-> x.hi, lo |-> x.lo + 1]

PowerOfTwo(j) == IF j < 16 THEN [hi |-> 0, lo |-> Pow(2, j)] ELSE [hi |-> Pow(2, j - 16), lo |-> 0]

\* every x in 1..MaxLogX; for every j the x on both sides of 2^j and of the
\* rounding boundary 2^(j + 1/2); the largest x below 2^32, and 2^32 and
\* 2^32 + 1, whose squares do not fit 64 bits
LogSamples ==
    {[hi |-> 0, lo |-> x] : x \in 1..MaxLogX}
        \cup {PowerOfTwo(j) : j \in 0..32}
        \cup {PlusOne(PowerOfTwo(j)) : j \in 0..32}
        \cup {[hi |-> 0, lo |-> Pow(2, j) - 1] : j \in 1..16}
        \cup {[hi |-> Pow(2, j) - 1, lo |-> 65535] : j \in 1..16}
        \cup {RoundingBoundary(j) : j \in 0..31}
        \cup {PlusOne(RoundingBoundary(j)) : j \in 0..31}

(***************************************************************************)
(* Specification SpecLog: ilog2_rounded called on its own.                 *)
(***************************************************************************)
InitLog ==
    /\ FactorizeIdle
    /\ fn = "ilog2_rounded"
    /\ args \in [x : LogSamples]
    /\ rnd = <<>>
    /\ ret = Pending

CallIlog2Rounded ==
    /\ fn = "ilog2_rounded"
    /\ ret = Pending
    /\ ret' \in ilog2_rounded_u64(args.x)
    /\ UNCHANGED <<fn, args, rnd>>
    /\ FactorizeUntouched

NextLog == CallIlog2Rounded

SpecLog == InitLog /\ [][NextLog]_vars

\* x <= y on halves
HalvesLeq(x, y) == x.hi < y.hi \/ (x.hi = y.hi /\ x.lo <= y.lo)

\* C15: for 1 <= x < 2^32, x * x fits 64 bits and ilog2_rounded(x) returns the
\* k with 2^(2k-1) <= x^2 < 2^(2k+1), that is the k with
\* 2^(k - 1/2) < x < 2^(k + 1/2): log2(x) rounded to the nearest integer.  For
\* x below 2^14 it is the k of the integer definition, with
\* 2^(2k) <= 2*x^2 < 2^(2k+2).
Ilog2RoundedNearest ==
    (fn = "ilog2_rounded" /\ ret # Pending /\ args.x.hi < 65536) =>
        /\ Len(WideMul(FromHalves(args.x), FromHalves(args.x))) <= 8
        /\ Returned
        /\ \A k \in {ret.value} :
              /\ k \in 0..32
              /\ WideBits(WideMul(FromHalves(args.x), FromHalves(args.x))) \in {2 * k, 2 * k + 1}
              /\ HalvesLeq(PlusOne(RoundingBoundary(k - 1)), args.x)
              /\ k < 32 => HalvesLeq(args.x, RoundingBoundary(k))
              /\ (args.x.hi = 0 /\ args.x.lo < 16384) =>
                     /\ k = ilog2_rounded(args.x.lo)
                     /\ Pow(2, 2 * k) <= 2 * args.x.lo * args.x.lo
                     /\ 2 * args.x.lo * args.x.lo < Pow(2, 2 * k + 2)

\* C15 witness: an x just above the rounding boundary below 2^32, whose
\* square needs all 64 bits, is rounded up to 32
Ilog2RoundedUpToThirtyTwo ==
    /\ fn = "ilog2_rounded" /\ Returned
    /\ args.x = PlusOne(RoundingBoundary(31))
    /\ WideBits(WideMul(FromHalves(args.x), FromHalves(args.x))) = 64
    /\ ret.value = 32

(***************************************************************************)
(* sqrt.rs: algebraic_sqrt by Newton lifting (lines 16-92).  Polynomials   *)
(* over Z/q are sequences of residues in 0..q-1; the residues stay below   *)
(* 2^30, and products of residues are taken by doubling.                   *)
(***************************************************************************)
RECURSIVE MulModQ(_, _, _)
\* a * b mod q for 0 <= a, b < q
MulModQ(a, b, q) ==
    IF a < 46341 /\ b < 46341 THEN (a * b) % q
    ELSE IF b = 0 THEN 0
    ELSE LET h == MulModQ(a, b \div 2, q)
         IN  (((h + h) % q) + (IF b % 2 = 1 THEN a ELSE 0)) % q

\* GfMpPolynomial::from_mp_polynomial / GfPolynomial::from_mp_polynomial
from_mp_polynomial(g, q) == [k \in DOMAIN g |-> g[k] % q]

\* f.mul_mod(g, h) over Z/q, f monic
GfMulMod(f, g, h, q) ==
    LET RECURSIVE SumQ(_)
        SumQ(v) == IF v = <<>> THEN 0 ELSE (Head(v) + SumQ(Tail(v))) % q
        product == [k \in 1..(Len(g) + Len(h) - 1) |->
                       SumQ([i \in 1..Len(g) |->
                                IF k + 1 - i \in 1..Len(h)
                                THEN MulModQ(g[i], h[k + 1 - i], q) ELSE 0])]
        RECURSIVE ReduceQ(_)
        ReduceQ(v) ==
            IF Len(v) <= degree(f) THEN v
            ELSE LET top   == v[Len(v)]
                     shift == Len(v) - Len(f)
                 IN  ReduceQ([k \in 1..(Len(v) - 1) |->
                                 IF k > shift
                                 THEN (v[k] - MulModQ(top, f[k - shift] % q, q)) % q
                                 ELSE v[k]])
    IN  ReduceQ(product)

\* `h.degree() == 0 && h[0] == 1`
IsOne(h) == h # <<>> /\ h[1] = 1 /\ \A k \in 2..Len(h) : h[k] = 0

\* GfPolynomial::is_irreducible, for f of degree 2 or 3: f has no root mod p
is_irreducible(f, p) == find_roots_mod_p(f, p) = <<>>

RECURSIVE select_p(_, _)
\* lines 104-113, from the candidate p on
select_p(f, p) ==
    IF miller_rabin(p) /\ is_irreducible(f, p) THEN p ELSE select_p(f, p + 2)

\* lines 117-149: the search returns a v.1 that passed the test of lines
\* 143-146, s * v.1^2 = 1 (mod p, mod f)
inv_sqrt_mod_p(s, f, p) ==
    {r \in [1..degree(f) -> 0..(p - 1)] :
        IsOne(GfMulMod(from_mp_polynomial(f, p), from_mp_polynomial(s, p),
                       GfMulMod(from_mp_polynomial(f, p), r, r, p), p))}

\* lines 31-38; u32::ilog2 aborts on 0
num_iterations_of(s, p) ==
    LET largest  == CHOOSE c \in {Abs(s[k]) : k \in DOMAIN s} :
                        \A k \in DOMAIN s : Abs(s[k]) <= c
        quotient == significant_bits(largest) \div ilog2(p)
    IN  IF quotient = 0 THEN Panic ELSE Ok(ilog2(quotient) + 3)

\* a step that leaves out the factor 2^(-1)
NewtonStepWithoutHalving(r, s, f, q) ==
    LET f_mod_q == from_mp_polynomial(f, q)
        t1 == GfMulMod(f_mod_q, from_mp_polynomial(s, q), GfMulMod(f_mod_q, r, r, q), q)
        t2 == [k \in DOMAIN t1 |-> (q - t1[k]) % q]
        t3 == [t2 EXCEPT ![1] = (@ + 3) % q]
    IN  GfMulMod(f_mod_q, r, t3, q)

\* lines 46-65: r * (3 - s * r^2) * 2^(-1) mod q mod f, q already squared
NewtonStep(r, s, f, q) ==
    LET f_mod_q == from_mp_polynomial(f, q)
        t1 == GfMulMod(f_mod_q, from_mp_polynomial(s, q), GfMulMod(f_mod_q, r, r, q), q)
        t2 == [k \in DOMAIN t1 |-> (q - t1[k]) % q]
        t3 == [t2 EXCEPT ![1] = (@ + 3) % q]
        t4 == GfMulMod(f_mod_q, r, t3, q)
        two_inv == (q + 1) \div 2
    IN  [k \in DOMAIN t4 |-> MulModQ(t4[k], two_inv, q)]

\* lines 77-91: s * r mod q, recentred, and checked
Recover(r, s, f, q) ==
    LET result_mod_q == GfMulMod(from_mp_polynomial(f, q), from_mp_polynomial(s, q), r, q)
        result == [k \in DOMAIN result_mod_q |->
                      IF significant_bits(result_mod_q[k]) >= significant_bits(q) - 1
                      THEN result_mod_q[k] - q ELSE result_mod_q[k]]
    IN  IF /\ \A k \in DOMAIN result : Abs(result[k]) < 20000
           /\ mul_mod(f, result, result) = s
        THEN Ok(result) ELSE Panic

(***************************************************************************)
(* Specification SpecNewton: algebraic_sqrt called on one or two integers  *)
(* a + b*theta of a polynomial of select, the search for p started at a    *)
(* small odd seed in place of 1000000009.                                  *)
(***************************************************************************)
LiftIntegers == {<<a, b>> : a \in (-MaxLiftCoef)..MaxLiftCoef, b \in 1..MaxLiftCoef}

InitNewton ==
    /\ FactorizeIdle
    /\ fn = "algebraic_sqrt"
    /\ args \in [integers : {<<g>> : g \in LiftIntegers}
                                \cup {<<g, h>> : g \in LiftIntegers, h \in LiftIntegers},
                 f : {select(n).f : n \in Inputs},
                 seed : {x \in 3..MaxLiftSeed : x % 2 = 1}]
    /\ rnd = <<>>
    /\ ret = Pending

\* lines 17-42
NewtonSetup ==
    /\ fn = "algebraic_sqrt"
    /\ pc = "idle"
    /\ ret = Pending
    /\ \E s \in {AlgebraicSide(args.integers, args.f)}, p \in {select_p(args.f, args.seed)} :
         \E r \in inv_sqrt_mod_p(s, args.f, p) :
            /\ rnd' = r
            /\ IF num_iterations_of(s, p) = Panic
               THEN /\ pc' = "panic"
                    /\ ret' = Panic
                    /\ env' = env
               ELSE /\ pc' = "newton"
                    /\ ret' = ret
                    /\ env' = [s |-> s, p |-> p, q |-> p, r |-> r, i |-> 0,
                               num_iterations |-> num_iterations_of(s, p).value,
                               failed |-> "no"]
    /\ UNCHANGED <<fn, args, sievevars, depvars>>

\* lines 44-75: one turn of `for _ in 0..num_iterations`
NewtonIteration ==
    /\ fn = "algebraic_sqrt"
    /\ pc = "newton"
    /\ env.i < env.num_iterations
    /\ env.q <= MaxLiftModulus
    /\ \E q \in {env.q * env.q} :
         \E r \in {NewtonStep(env.r, env.s, args.f, q)} :
            IF IsOne(GfMulMod(from_mp_polynomial(args.f, q), from_mp_polynomial(env.s, q),
                              GfMulMod(from_mp_polynomial(args.f, q), r, r, q), q))
            THEN /\ env' = [env EXCEPT !.q = q, !.r = r, !.i = @ + 1]
                 /\ UNCHANGED <<pc, ret>>
            ELSE /\ env' = [env EXCEPT !.q = q, !.r = r, !.failed = "in-loop assert"]
                 /\ pc' = "panic"
                 /\ ret' = Panic
    /\ UNCHANGED <<fn, args, rnd, sievevars, depvars>>

\* lines 77-91
NewtonFinish ==
    /\ fn = "algebraic_sqrt"
    /\ pc = "newton"
    /\ env.i = env.num_iterations
    /\ ret' = Recover(env.r, env.s, args.f, env.q)
    /\ pc' = IF ret' = Panic THEN "panic" ELSE "done"
    /\ env' = [env EXCEPT !.failed = IF ret' = Panic THEN "final assert" ELSE "no"]
    /\ UNCHANGED <<fn, args, rnd, sievevars, depvars>>

NextNewton == NewtonSetup \/ NewtonIteration \/ NewtonFinish

SpecNewton == InitNewton /\ [][NextNewton]_vars

\* s * r^2 mod q mod f for f = x^2 + c1 x + c0, by the closed form
\* (u + v x)^2 = (u^2 - c0 v^2) + (2uv - c1 v^2) x
InverseRootResidue(s, r, f, q) ==
    LET c0 == f[1] % q
        c1 == f[2] % q
        s0 == s[1] % q
        s1 == s[2] % q
        vv == MulModQ(r[2], r[2], q)
        A  == (MulModQ(r[1], r[1], q) - MulModQ(c0, vv, q)) % q
        B  == (2 * MulModQ(r[1], r[2], q) - MulModQ(c1, vv, q)) % q
        s1B == MulModQ(s1, B, q)
    IN  <<(MulModQ(s0, A, q) - MulModQ(c0, s1B, q)) % q,
          (((MulModQ(s0, B, q) + MulModQ(s1, A, q)) % q) - MulModQ(c1, s1B, q)) % q>>

\* C16: in algebraic_sqrt, started from an r with s * r^2 = 1 (mod p, mod f),
\* after the k-th turn of the loop the modulus is q = p^(2^k) and the new r
\* has s * r^2 = 1 (mod q, mod f), for every k up to num_iterations; the
\* assertion inside the loop never fails.
NewtonLiftKeepsInverseRoot ==
    (fn = "algebraic_sqrt" /\ env # <<>>) =>
        /\ env.failed # "in-loop assert"
        /\ env.i \in 0..env.num_iterations
        /\ env.q = Pow(env.p, Pow(2, env.i))
        /\ \A k \in DOMAIN env.r : env.r[k] \in 0..(env.q - 1)
        /\ InverseRootResidue(env.s, env.r, args.f, env.q) = <<1, 0>>

\* C16 witness: three turns of the loop have lifted r to the modulus p^8, and
\* r is no longer a residue mod p^4
NewtonLiftedThreeTimes ==
    /\ fn = "algebraic_sqrt"
    /\ pc = "newton"
    /\ env.i = 3
    /\ env.q = Pow(env.p, 8)
    /\ \E k \in DOMAIN env.r : env.r[k] >= Pow(env.p, 4)
    /\ rnd # env.r

\* the row indices add_col recorded for column j (from 1) of the builder
BuilderColumn(j) ==
    SubSeq(matrix_builder.ones,
           (IF j = 1 THEN 0 ELSE matrix_builder.end[j - 1]) + 1,
           matrix_builder.end[j])

\* C17: from set_num_rows on and after every add_col of factorize, the
\* builder has num_rows = R = 1 + Br + Ba + Bq, an end array that does not
\* decrease and ends at the length of ones, one column per relation, in
\* every column pairwise distinct row indices, all below R; build's
\* assertion passes when the matrix is built.
BuilderInvariants ==
    (fn = "factorize" /\ matrix_builder # <<>>) =>
        /\ matrix_builder.num_rows = 1 + env.params.rational_base_size
                                       + env.params.algebraic_base_size
                                       + env.params.quad_char_base_size
        /\ Len(matrix_builder.end) = Len(relations)
        /\ \A j \in 2..Len(matrix_builder.end) :
               matrix_builder.end[j - 1] <= matrix_builder.end[j]
        /\ (IF matrix_builder.end = <<>> THEN 0
            ELSE matrix_builder.end[Len(matrix_builder.end)]) = Len(matrix_builder.ones)
        /\ \A j \in DOMAIN matrix_builder.end :
               \A column \in {BuilderColumn(j)} :
                   /\ \A k \in DOMAIN column : column[k] \in 0..(matrix_builder.num_rows - 1)
                   /\ \A k, l \in DOMAIN column : k # l => column[k] # column[l]
        /\ pc \in {"lanczos", "deps", "done"} => build(matrix_builder) # Panic
        /\ pc = "panic" => (last # <<>> /\ last.failed \in {"sqrt", "assert_eq"})

\* C17 witness: the matrix was built from a builder that holds an empty
\* column (end repeats an entry), a column of several rows and a column with
\* the last row R - 1
BuilderWithEmptyAndLastRowColumns ==
    /\ fn = "factorize"
    /\ pc = "deps"
    /\ \E j \in DOMAIN matrix_builder.end : BuilderColumn(j) = <<>>
    /\ \E j \in DOMAIN matrix_builder.end : Len(BuilderColumn(j)) >= 2
    /\ \E j \in DOMAIN matrix_builder.end :
           \E k \in DOMAIN BuilderColumn(j) :
               BuilderColumn(j)[k] = matrix_builder.num_rows - 1

=============================================================================
